---- MODULE Spec2Model ----
(***************************************************************************)
(* A model of the quantum-circuit builder `qc` of src/lib/circuit.py: its  *)
(* State, its IR, its mode flags, the gate calls apply1/applyc, the        *)
(* decompositions ccu and multi_control, and the circuit transforms qc,    *)
(* inverse and control_by.                                                 *)
(*                                                                         *)
(* Amplitudes are exact: an amplitude is an element of Z[w]/2^exp, where   *)
(* w = e^(i*pi/4) (w^4 = -1), written as the 4-tuple <<a, b, c, d>> for    *)
(* a + b*w + c*w^2 + d*w^3. All gates of the builder's vocabulary used     *)
(* here (x, y, z, h, s, t, v, yroot, u1(k*pi/4) and their adjoints) have   *)
(* entries in this ring. A State is the record [nbits, exp, amp]: amp maps *)
(* each basis index with a non-zero amplitude to its numerator, exp is the *)
(* common power-of-two denominator, kept minimal. Qubit 0 is the most      *)
(* significant bit of a basis index.                                       *)
(***************************************************************************)
EXTENDS Integers, Sequences, FiniteSets, TLC

VARIABLES main,     \* the builder the calls are made on
          other,    \* a second builder: the circuit passed to qc / built by inverse
          pre,      \* main as it was before the last call
          call,     \* the last call and its arguments
          outcome,  \* "none", or the error the last call raised
          ncalls,   \* the number of calls made so far
          newqc     \* the circuit inverse() returned, if it was called

vars == <<main, other, pre, call, outcome, ncalls, newqc>>

(***************************************************************************)
(* Optional values: None is <<>>, a present value v is <<v>>.              *)
(***************************************************************************)
None == <<>>
Some(v) == <<v>>

(***************************************************************************)
(* Strict(v, F) is F(v) with v evaluated once, before F is applied: the    *)
(* builder's calls run one after the other, each on the finished result of *)
(* the one before.                                                         *)
(***************************************************************************)
Strict(v, F(_)) == CHOOSE r \in {F(x) : x \in {v}} : TRUE

\* Table(S, F) is the function on S with the values F(i), computed when the
\* table is made: an amplitude vector is stored, not recomputed on reading.
Table(S, F(_)) == CHOOSE g \in {[i \in S |-> F(i)]} : g = g

(***************************************************************************)
(* The ring Z[w], w^4 = -1.                                                *)
(***************************************************************************)
Zero == <<0, 0, 0, 0>>
One == <<1, 0, 0, 0>>
Imag == <<0, 0, 1, 0>>
Omega == <<0, 1, 0, 0>>

Add(x, y) == <<x[1] + y[1], x[2] + y[2], x[3] + y[3], x[4] + y[4]>>

Neg(x) == <<-x[1], -x[2], -x[3], -x[4]>>

Mul(x, y) ==
  << x[1]*y[1] - x[2]*y[4] - x[3]*y[3] - x[4]*y[2],
     x[1]*y[2] + x[2]*y[1] - x[3]*y[4] - x[4]*y[3],
     x[1]*y[3] + x[2]*y[2] + x[3]*y[1] - x[4]*y[4],
     x[1]*y[4] + x[2]*y[3] + x[3]*y[2] + x[4]*y[1] >>

\* complex conjugate: conj(w) = w^-1 = -w^3
Conj(x) == <<x[1], -x[4], -x[3], -x[2]>>

Scale(k, x) == <<k * x[1], k * x[2], k * x[3], k * x[4]>>

\* sqrt(2) = w - w^3
Sqrt2 == <<0, 1, 0, -1>>

Even(x) == \A j \in 1..4 : x[j] % 2 = 0

Half(x) == <<x[1] \div 2, x[2] \div 2, x[3] \div 2, x[4] \div 2>>

\* w^k: w^(j+4) = -w^j
OmegaPow(k) ==
  LET j == k % 8
      u(c) == IF c = j % 4 THEN (IF j < 4 THEN 1 ELSE -1) ELSE 0
  IN <<u(0), u(1), u(2), u(3)>>

(***************************************************************************)
(* Amplitudes that are not known numbers. An entry of a vector drawn at    *)
(* random is an unknown: it is written as an atom, a natural number naming *)
(* the draw and the position. An amplitude is a ring element <<a,b,c,d>>,  *)
(* or a ring element followed by the sorted atoms it is multiplied by.     *)
(***************************************************************************)
Atom(draw, i) == draw * 64 + i

Atoms(x) == SubSeq(x, 5, Len(x))

RECURSIVE MergeAtoms(_, _)
MergeAtoms(s, t) ==
  IF s = <<>> THEN t
  ELSE IF t = <<>> THEN s
  ELSE IF Head(s) <= Head(t) THEN <<Head(s)>> \o MergeAtoms(Tail(s), t)
  ELSE <<Head(t)>> \o MergeAtoms(s, Tail(t))

\* the product of two amplitudes
AmpMul(x, y) == Mul(x, y) \o MergeAtoms(Atoms(x), Atoms(y))

\* an amplitude with an even ring part, halved
AmpHalf(x) == Half(x) \o Atoms(x)

(***************************************************************************)
(* Operators (ops.Operator): a display name and a 2x2 matrix m / 2^e.      *)
(***************************************************************************)
Operator(name, e, m) == [name |-> name, e |-> e, m |-> m]

PauliX == Operator("X", 0, <<<<Zero, One>>, <<One, Zero>>>>)
PauliY == Operator("Y", 0, <<<<Zero, Neg(Imag)>>, <<Imag, Zero>>>>)
PauliZ == Operator("Z", 0, <<<<One, Zero>>, <<Zero, Neg(One)>>>>)
Hadamard ==
  LET r == <<0, 1, 0, -1>>    \* sqrt(2) = w - w^3
  IN Operator("H", 1, <<<<r, r>>, <<r, Neg(r)>>>>)
Sgate == Operator("S", 0, <<<<One, Zero>>, <<Zero, Imag>>>>)
Tgate == Operator("T", 0, <<<<One, Zero>>, <<Zero, Omega>>>>)
\* V = sqrt(X) = 1/2 [[1+i, 1-i], [1-i, 1+i]]
Vgate ==
  LET p == Add(One, Imag)
      q == Add(One, Neg(Imag))
  IN Operator("V", 1, <<<<p, q>>, <<q, p>>>>)
\* Yroot = sqrt(Y) = 1/2 [[1+i, -1-i], [1+i, 1+i]]
Yroot ==
  LET p == Add(One, Imag)
  IN Operator("YRoot", 1, <<<<p, Neg(p)>>, <<p, p>>>>)
\* U1(val) = diag(1, e^(i*val)); val is counted in units of pi/4
U1(val) == Operator("U1", 0, <<<<One, Zero>>, <<Zero, OmegaPow(val)>>>>)

\* The conjugate transpose; the display name gets a dagger marker.
adjoint(op) ==
  Operator(op.name \o "^dag", op.e,
           << <<Conj(op.m[1][1]), Conj(op.m[2][1])>>,
              <<Conj(op.m[1][2]), Conj(op.m[2][2])>> >>)

\* Two operators are the same linear map.
SameMatrix(a, b) == a.e = b.e /\ a.m = b.m

(***************************************************************************)
(* scipy.linalg.sqrtm on the operators of the vocabulary: the principal    *)
(* square root (eigenvalue 1 -> 1, -1 -> i, e^(i*t) -> e^(i*t/2) for t in  *)
(* (-pi, pi]). ops.Operator(sqrtm(op)) carries no gate name.               *)
(***************************************************************************)
HasSqrtm(op) ==
  \/ SameMatrix(op, PauliX) \/ SameMatrix(op, PauliY)
  \/ \E k \in {-2, 0, 2, 4} : SameMatrix(op, U1(k))

sqrtm(op) ==
  IF SameMatrix(op, PauliX) THEN Operator("", Vgate.e, Vgate.m)
  ELSE IF SameMatrix(op, PauliY) THEN Operator("", Yroot.e, Yroot.m)
  ELSE LET k == CHOOSE j \in {-2, 0, 2, 4} : SameMatrix(op, U1(j))
       IN Operator("", 0, U1(k \div 2).m)

(***************************************************************************)
(* States (state.State).                                                   *)
(***************************************************************************)
RECURSIVE Pow2(_)
Pow2(n) == IF n <= 0 THEN 1 ELSE 2 * Pow2(n - 1)

\* The vector of a State is amp / (2^exp * sqrt(nrm)): amp maps the basis
\* indices of the non-zero entries to ring elements, nrm is a positive
\* element of Z[sqrt 2]. Gates and allocations leave nrm at 1; a collapsing
\* measurement divides by the square root of a probability, which it holds
\* in nrm.
StateN(nbits, exp, amp, nrm) ==
  [nbits |-> nbits, exp |-> exp, amp |-> amp, nrm |-> nrm]

State(nbits, exp, amp) == StateN(nbits, exp, amp, One)

\* state.State(1.0): the 0-qubit unit state
UnitState == State(0, 0, [i \in {0} |-> One])

\* the basis state |bits> of n qubits (state.zeros, state.ones, state.bitstring)
basis(n, bits) == State(n, 0, [i \in {bits} |-> One])
zeros(n) == basis(n, 0)
ones(n) == basis(n, Pow2(n) - 1)

Amp(psi, i) == IF i \in DOMAIN psi.amp THEN psi.amp[i] ELSE Zero

\* value of qubit q in basis index i of n qubits (qubit 0 is the top bit)
Bit(i, n, q) == (i \div Pow2(n - 1 - q)) % 2

\* the common denominator kept minimal, so that equal states are equal values
RECURSIVE Reduce(_)
Reduce(psi0) ==
  Strict(psi0, LAMBDA psi :
    IF psi.exp > 0 /\ \A i \in DOMAIN psi.amp : Even(psi.amp[i])
    THEN Reduce(StateN(psi.nbits, psi.exp - 1,
                       Table(DOMAIN psi.amp, LAMBDA i : AmpHalf(psi.amp[i])),
                       psi.nrm))
    ELSE psi)

\* sqrt(2 m) = sqrt(2) * sqrt(m): an even nrm gives its factor sqrt(2) to
\* the amplitudes, amp / (2^exp sqrt(2 m)) = sqrt(2) amp / (2^(exp+1) sqrt(m))
RECURSIVE Renorm(_)
Renorm(psi0) ==
  Strict(psi0, LAMBDA psi :
    IF Even(psi.nrm)
    THEN Renorm(StateN(psi.nbits, psi.exp + 1,
                       Table(DOMAIN psi.amp, LAMBDA i : AmpMul(psi.amp[i], Sqrt2)),
                       Half(psi.nrm)))
    ELSE Reduce(psi))

\* State * State: the Kronecker product, new qubits at the higher indices
tensor(psi, phi) ==
  LET d == Pow2(phi.nbits)
      dom == {i * d + j : i \in DOMAIN psi.amp, j \in DOMAIN phi.amp}
  IN Renorm(StateN(psi.nbits + phi.nbits, psi.exp + phi.exp,
                   Table(dom, LAMBDA k : AmpMul(psi.amp[k \div d], phi.amp[k % d])),
                   Mul(psi.nrm, phi.nrm)))

(***************************************************************************)
(* The gate-application kernel (State.apply1 / State.applyc, reached       *)
(* through the module-level apply1 / applyc of circuit.py): psi becomes    *)
(* (I x ... x U x ... x I) psi, pair by pair over the target bit; the      *)
(* controlled form touches only the pairs whose control bit is 1.          *)
(***************************************************************************)
KernelNew(psi, gate, qubit, i) ==
  LET n == psi.nbits
      b == Pow2(n - 1 - qubit)
      r == Bit(i, n, qubit)
      i0 == i - r * b
      i1 == i0 + b
  IN Strict(<<Amp(psi, i0), Amp(psi, i1)>>, LAMBDA a :
       Strict(<<Mul(gate.m[r + 1][1], a[1]), Mul(gate.m[r + 1][2], a[2])>>,
              LAMBDA t : Add(t[1], t[2])))

state_apply1(psi, gate, qubit) ==
  LET n == psi.nbits
      b == Pow2(n - 1 - qubit)
      cand == DOMAIN psi.amp \cup
              {IF Bit(i, n, qubit) = 0 THEN i + b ELSE i - b : i \in DOMAIN psi.amp}
  IN Strict(Table(cand, LAMBDA i : KernelNew(psi, gate, qubit, i)), LAMBDA new :
       Reduce(StateN(n, psi.exp + gate.e,
                     Table({j \in cand : new[j] # Zero}, LAMBDA i : new[i]),
                     psi.nrm)))

state_applyc(psi, gate, control, target) ==
  LET n == psi.nbits
      b == Pow2(n - 1 - target)
      value(i) == IF Bit(i, n, control) = 1
                  THEN KernelNew(psi, gate, target, i)
                  ELSE Scale(Pow2(gate.e), Amp(psi, i))
      cand == DOMAIN psi.amp \cup
              {IF Bit(i, n, target) = 0 THEN i + b ELSE i - b :
                 i \in {j \in DOMAIN psi.amp : Bit(j, n, control) = 1}}
  IN Strict(Table(cand, LAMBDA i : value(i)), LAMBDA new :
       Reduce(StateN(n, psi.exp + gate.e,
                     Table({j \in cand : new[j] # Zero}, LAMBDA i : new[i]),
                     psi.nrm)))

(***************************************************************************)
(* The IR (ir.Ir): one ordered sequence `gates` of entries. A node is a    *)
(* single-target node or a controlled node; section and end_section push   *)
(* markers into the same sequence. A single node holds its target in idx0; *)
(* a controlled node holds its control in idx0 and its target in idx1.     *)
(***************************************************************************)
NoGate == Operator("", 0, <<>>)

Node(kind, name, idx0, idx1, gate, val) ==
  [kind |-> kind, name |-> name, idx0 |-> idx0, idx1 |-> idx1,
   gate |-> gate, val |-> val]

is_single(node) == node.kind = "single"
is_ctl(node) == node.kind = "ctl"
is_gate(node) == is_single(node) \/ is_ctl(node)
is_section(node) == node.kind = "section"
is_end_section(node) == node.kind = "end_section"

ir_single(b, name, idx0, gate, val) ==
  [b EXCEPT !.gates = Append(@, Node("single", name, idx0, None, gate, val))]

ir_controlled(b, name, idx0, idx1, gate, val) ==
  [b EXCEPT !.gates = Append(@, Node("ctl", name, idx0, Some(idx1), gate, val))]

ir_section(b, desc) ==
  [b EXCEPT !.gates = Append(@, Node("section", desc, 0, None, NoGate, None))]

ir_end_section(b) ==
  [b EXCEPT !.gates = Append(@, Node("end_section", "", 0, None, NoGate, None))]

\* Node.to_ctl: a single node becomes a controlled node on ctl
to_ctl(node, ctl) ==
  [node EXCEPT !.kind = "ctl", !.idx0 = ctl, !.idx1 = Some(node.idx0)]

\* the nodes (single or controlled) of a sequence of IR entries, in order
GateNodes(gates) == SelectSeq(gates, is_gate)

(***************************************************************************)
(* The builder (class qc). A call on the builder is modelled in two parts: *)
(* the operator named after the method (apply1, applyc, ccu, ...) gives    *)
(* the sequence of steps the method takes for its arguments, and Run       *)
(* executes the steps on the builder, one after the other. The steps are:  *)
(*   apply1   one round of the loop of qc.apply1 (lines 192-197)           *)
(*   applyc   lines 209-214 of qc.applyc, between the two self.x calls     *)
(*   section / end_section   scope.__enter__ / scope.__exit__              *)
(*   raise    an error raised while the method evaluates an argument       *)
(* exc is "none" while a call runs normally and the raised error once it   *)
(* has failed. gcalls counts the gate calls made (one per target index of  *)
(* apply1, one per applyc) and kcalls the kernel invocations; both are     *)
(* observers of the run, not program state.                                *)
(***************************************************************************)
NoExc == "none"
Raise(b, e) == [b EXCEPT !.exc = e]
Failed(b) == b.exc # NoExc

\* qc.__init__(name, eager); FLAGS: some export flag (libq, qasm, ...) is set
qc_init(name, eager, FLAGS) ==
  [name |-> name, psi |-> UnitState, gates |-> <<>>,
   eager |-> IF FLAGS THEN FALSE ELSE eager, build_ir |-> ~eager,
   global_reg |-> 0, sub_circuits |-> 0,
   exc |-> NoExc, gcalls |-> 0, kcalls |-> 0]

nbits(b) == b.psi.nbits

\* qc._tprod
_tprod(b, new_state, nqubits) ==
  [b EXCEPT !.psi = tensor(b.psi, new_state), !.global_reg = @ + nqubits]

\* qc.zeros, qc.ones, qc.bitstring (bits given as the basis index)
qc_zeros(b, n) == _tprod(b, zeros(n), n)
qc_ones(b, n) == _tprod(b, ones(n), n)
qc_bitstring(b, n, bits) == _tprod(b, basis(n, bits), n)

\* A control argument: an int (control by 1) or a one-element list [q]
\* (control by 0).
Ctl(q) == [q |-> q, list |-> FALSE]
CtlBy0(q) == [q |-> q, list |-> TRUE]
_ctl_by_0(ctl) == <<ctl.q, ctl.list>>

\* the module-level apply1 / applyc: the kernel on the live State. The
\* kernel's precondition is target/control index < qubit count.
kernel_apply1(b, gate, idx) ==
  IF ~(idx < nbits(b)) THEN Raise(b, "KernelIndexOutOfRange")
  ELSE [b EXCEPT !.psi = state_apply1(b.psi, gate, idx), !.kcalls = @ + 1]

kernel_applyc(b, gate, control, idx) ==
  IF ~(idx < nbits(b)) \/ ~(control < nbits(b))
  THEN Raise(b, "KernelIndexOutOfRange")
  ELSE [b EXCEPT !.psi = state_applyc(b.psi, gate, control, idx),
                 !.kcalls = @ + 1]

\* eager_apply1 without the builder's own check of the index
eager_apply1_unchecked(b, gate, idx) == kernel_apply1(b, gate, idx)

\* the assert of lines 195 and 212, then the kernel
eager_apply1(b, gate, idx) ==
  IF ~(idx < nbits(b)) THEN Raise(b, "InvalidQubitIndex")
  ELSE kernel_apply1(b, gate, idx)

eager_applyc(b, gate, ctl_qubit, idx) ==
  IF ~(idx < nbits(b)) THEN Raise(b, "InvalidQubitIndex")
  ELSE kernel_applyc(b, gate, ctl_qubit, idx)

\* step_apply1 with the two mode flags taken one for the other
step_apply1_swapped(b, s) ==
  Strict(IF b.eager THEN ir_single(b, s.name, s.idx, s.gate, s.val) ELSE b,
         LAMBDA b1 :
           Strict(IF b1.build_ir THEN eager_apply1(b1, s.gate, s.idx) ELSE b1,
                  LAMBDA b2 : [b2 EXCEPT !.gcalls = @ + 1]))

\* one round of the loop of qc.apply1, on index s.idx
step_apply1(b, s) ==
  Strict(IF b.build_ir THEN ir_single(b, s.name, s.idx, s.gate, s.val) ELSE b,
         LAMBDA b1 :
           Strict(IF b1.eager THEN eager_apply1(b1, s.gate, s.idx) ELSE b1,
                  LAMBDA b2 : [b2 EXCEPT !.gcalls = @ + 1]))

\* qc.applyc between its two self.x calls
step_applyc(b, s) ==
  Strict(IF b.build_ir
         THEN ir_controlled(b, s.name, s.ctl_qubit, s.idx, s.gate, s.val) ELSE b,
         LAMBDA b1 :
           Strict(IF b1.eager THEN eager_applyc(b1, s.gate, s.ctl_qubit, s.idx)
                  ELSE b1,
                  LAMBDA b2 : [b2 EXCEPT !.gcalls = @ + 1]))

step(b, s) ==
  IF s.k = "apply1" THEN step_apply1(b, s)
  ELSE IF s.k = "applyc" THEN step_applyc(b, s)
  ELSE IF s.k = "section" THEN ir_section(b, s.desc)
  ELSE IF s.k = "end_section" THEN ir_end_section(b)
  ELSE Raise(b, s.exc)

\* advance whose scopes are left without their end_section when the body
\* has raised
advance_no_exit(st, s) ==
  IF ~Failed(st[1]) THEN <<step(st[1], s), 0>> ELSE st

\* One step of a call in progress. st is <<b, skipped>>. Once a step has
\* failed the rest is passed over, except the end_section of every scope
\* that was open at the failure: skipped counts the sections passed over
\* since, whose end_section is passed over too.
advance(st, s) ==
  IF ~Failed(st[1]) THEN <<step(st[1], s), 0>>
  ELSE IF s.k = "section" THEN <<st[1], st[2] + 1>>
  ELSE IF s.k = "end_section"
       THEN IF st[2] > 0 THEN <<st[1], st[2] - 1>>
            ELSE <<ir_end_section(st[1]), 0>>
  ELSE st

\* The steps in order: the first half of them, then the second half.
RECURSIVE run(_, _)
run(st, steps) ==
  IF steps = <<>> THEN st
  ELSE IF Len(steps) = 1 THEN advance(st, steps[1])
  ELSE Strict(run(st, SubSeq(steps, 1, Len(steps) \div 2)), LAMBDA mid :
         run(mid, SubSeq(steps, Len(steps) \div 2 + 1, Len(steps))))

Run(b, steps) == run(<<b, 0>>, steps)[1]

RECURSIVE Flat(_)
Flat(seqs) == IF seqs = <<>> THEN <<>> ELSE Head(seqs) \o Flat(Tail(seqs))

raise(exc) == <<[k |-> "raise", exc |-> exc]>>

\* with self.scope(self.ir, desc): body
scope(desc, body) ==
  <<[k |-> "section", desc |-> desc]>> \o body \o <<[k |-> "end_section"]>>

\* qc.apply1; idx_set is the sequence of indices (an int is <<idx>>)
apply1(gate, idx_set, name, val) ==
  [i \in 1..Len(idx_set) |->
     [k |-> "apply1", gate |-> gate, idx |-> idx_set[i], name |-> name, val |-> val]]

\* self.x(idx, cond), as add_single defines it
x(idx, cond) == IF cond THEN apply1(PauliX, <<idx>>, "x", None) ELSE <<>>

\* qc.applyc
applyc(gate, ctl, idx, name, val) ==
  LET ctl_qubit == _ctl_by_0(ctl)[1]
      by_0 == _ctl_by_0(ctl)[2]
  IN x(ctl_qubit, by_0)
     \o <<[k |-> "applyc", gate |-> gate, ctl_qubit |-> ctl_qubit, idx |-> idx,
           name |-> name, val |-> val]>>
     \o x(ctl_qubit, by_0)

\* self.cx(idx0, idx1), as add_ctl defines it
cx(idx0, idx1) == applyc(PauliX, idx0, idx1, "cx", None)

\* qc.cu (every operator of the model is 2x2)
cu(idx0, idx1, op, desc) == applyc(op, idx0, idx1, desc, None)

\* ccu with the middle step made of v in place of its adjoint
ccu_no_adjoint(idx0, idx1, idx2, op, desc) ==
  LET i0 == _ctl_by_0(idx0)[1]
      i1 == _ctl_by_0(idx1)[1]
      v == sqrtm(op)
  IN scope("CC" \o op.name,
           x(i0, _ctl_by_0(idx0)[2])
           \o x(i1, _ctl_by_0(idx1)[2])
           \o cu(Ctl(i0), idx2, v, op.name \o "^{1/2}")
           \o cx(Ctl(i0), i1)
           \o cu(Ctl(i1), idx2, v, op.name \o "^t")
           \o cx(Ctl(i0), i1)
           \o cu(Ctl(i1), idx2, v, op.name \o "^{1/2}")
           \o x(i1, _ctl_by_0(idx1)[2])
           \o x(i0, _ctl_by_0(idx0)[2]))

(***************************************************************************)
(* qc.ccu: the Sleator-Weinfurter construction. idx0 and idx1 are control  *)
(* arguments (Ctl or CtlBy0), idx2 is the target.                          *)
(***************************************************************************)
ccu(idx0, idx1, idx2, op, desc) ==
  LET i0 == _ctl_by_0(idx0)[1]
      c0_by_0 == _ctl_by_0(idx0)[2]
      i1 == _ctl_by_0(idx1)[1]
      c1_by_0 == _ctl_by_0(idx1)[2]
      v == sqrtm(op)
  IN scope("CC" \o op.name,
           x(i0, c0_by_0)
           \o x(i1, c1_by_0)
           \o cu(Ctl(i0), idx2, v, op.name \o "^{1/2}")
           \o cx(Ctl(i0), i1)
           \o cu(Ctl(i1), idx2, adjoint(v), op.name \o "^t")
           \o cx(Ctl(i0), i1)
           \o cu(Ctl(i1), idx2, v, op.name \o "^{1/2}")
           \o x(i1, c1_by_0)
           \o x(i0, c0_by_0))

\* qc.ccx
ccx(idx0, idx1, idx2) == ccu(idx0, idx1, idx2, PauliX, "ccx")

(***************************************************************************)
(* qc.multi_control. ctl is a sequence of control arguments, aux the       *)
(* ancilla argument: None, or a list of qubit indices.                     *)
(***************************************************************************)
AuxNone == [none |-> TRUE, items |-> <<>>]
AuxList(items) == [none |-> FALSE, items |-> items]
\* Python's truth value of aux: None and [] are false
aux_truthy(aux) == ~aux.none /\ aux.items # <<>>
\* the error aux[j] raises, or "none" (j counts from 0)
aux_index_exc(aux, j) ==
  IF aux.none THEN "TypeError"
  ELSE IF j + 1 > Len(aux.items) THEN "IndexError" ELSE NoExc
aux_at(aux, j) == aux.items[j + 1]

\* self.ccx(c, aux[j], aux[j + 1]); evaluating the arguments may raise
ccx_aux(c, aux, j) ==
  IF aux_index_exc(aux, j) # NoExc THEN raise(aux_index_exc(aux, j))
  ELSE IF aux_index_exc(aux, j + 1) # NoExc THEN raise(aux_index_exc(aux, j + 1))
  ELSE ccx(c, Ctl(aux_at(aux, j)), aux_at(aux, j + 1))

\* self.ccx(ctl[0], ctl[1], aux[0])
ccx_first(ctl, aux) ==
  IF aux_index_exc(aux, 0) # NoExc THEN raise(aux_index_exc(aux, 0))
  ELSE ccx(ctl[1], ctl[2], aux_at(aux, 0))

\* for i in range(2, len(ctl)): ccx(ctl[i], aux[aux_idx], aux[aux_idx + 1]),
\* where aux_idx = i - 2 (ctl[i] of the source is ctl[i + 1] here)
compute_loop(ctl, aux) ==
  Flat([j \in 1..(Len(ctl) - 2) |-> ccx_aux(ctl[j + 2], aux, j - 1)])

\* for i in range(len(ctl) - 1, 1, -1): the same calls, downwards
uncompute_loop(ctl, aux) ==
  Flat([j \in 1..(Len(ctl) - 2) |->
          ccx_aux(ctl[Len(ctl) - j + 1], aux, Len(ctl) - j - 2)])

\* self.applyc(gate, aux[aux_idx], idx1, desc) with aux_idx = len(ctl) - 2
apply_predicate(ctl, idx1, aux, gate, desc) ==
  IF aux_index_exc(aux, Len(ctl) - 2) # NoExc
  THEN raise(aux_index_exc(aux, Len(ctl) - 2))
  ELSE applyc(gate, Ctl(aux_at(aux, Len(ctl) - 2)), idx1, desc, None)

\* multi_control whose uncompute ladder stops one rung early
multi_control_short_uncompute(ctl, idx1, aux, gate, desc) ==
  IF aux_truthy(aux) /\ ~(Len(aux.items) >= Len(ctl) - 1)
  THEN raise("AncillaCount")
  ELSE scope("multi-" \o gate.name,
         IF ctl = <<>> THEN apply1(gate, <<idx1>>, desc, None)
         ELSE IF Len(ctl) = 1 THEN applyc(gate, ctl[1], idx1, desc, None)
         ELSE IF Len(ctl) = 2 THEN ccu(ctl[1], ctl[2], idx1, gate, desc)
         ELSE ccx_first(ctl, aux)
              \o compute_loop(ctl, aux)
              \o apply_predicate(ctl, idx1, aux, gate, desc)
              \o uncompute_loop(SubSeq(ctl, 1, Len(ctl) - 1), aux)
              \o ccx_first(ctl, aux))

multi_control(ctl, idx1, aux, gate, desc) ==
  IF aux_truthy(aux) /\ ~(Len(aux.items) >= Len(ctl) - 1)
  THEN raise("AncillaCount")
  ELSE scope("multi-" \o gate.name,
         IF ctl = <<>> THEN apply1(gate, <<idx1>>, desc, None)
         ELSE IF Len(ctl) = 1 THEN applyc(gate, ctl[1], idx1, desc, None)
         ELSE IF Len(ctl) = 2 THEN ccu(ctl[1], ctl[2], idx1, gate, desc)
         ELSE ccx_first(ctl, aux)
              \o compute_loop(ctl, aux)
              \o apply_predicate(ctl, idx1, aux, gate, desc)
              \o uncompute_loop(ctl, aux)
              \o ccx_first(ctl, aux))

(***************************************************************************)
(* qc.qc: replay another circuit's IR into this builder at an offset.      *)
(***************************************************************************)
\* qc_gate that leaves the control index of a controlled node where it was
qc_gate_ctl_in_place(gate, offset) ==
  IF is_single(gate)
  THEN apply1(gate.gate, <<gate.idx0 + offset>>, gate.name, gate.val)
  ELSE IF is_ctl(gate)
  THEN applyc(gate.gate, Ctl(gate.idx0), gate.idx1[1] + offset,
              gate.name, gate.val)
  ELSE <<>>

qc_gate(gate, offset) ==
  IF is_single(gate)
  THEN apply1(gate.gate, <<gate.idx0 + offset>>, gate.name, gate.val)
  ELSE IF is_ctl(gate)
  THEN applyc(gate.gate, Ctl(gate.idx0 + offset), gate.idx1[1] + offset,
              gate.name, gate.val)
  ELSE <<>>

qc(qc_parm, offset) ==
  Flat([i \in 1..Len(qc_parm.gates) |-> qc_gate(qc_parm.gates[i], offset)])

(***************************************************************************)
(* qc.inverse: a new non-eager circuit, the gates reversed and adjoint.    *)
(***************************************************************************)
\* val = -gate.val if gate.val else None
inverse_val(val) == IF val # None /\ val[1] # 0 THEN Some(-val[1]) ELSE None

\* inverse_gate that keeps each operator instead of taking its adjoint
inverse_gate_same_operator(gate) ==
  IF is_single(gate)
  THEN apply1(gate.gate, <<gate.idx0>>, gate.name \o "*", inverse_val(gate.val))
  ELSE IF is_ctl(gate)
  THEN applyc(gate.gate, Ctl(gate.idx0), gate.idx1[1],
              gate.name \o "*", inverse_val(gate.val))
  ELSE <<>>

inverse_gate(gate) ==
  IF is_single(gate)
  THEN apply1(adjoint(gate.gate), <<gate.idx0>>, gate.name \o "*",
              inverse_val(gate.val))
  ELSE IF is_ctl(gate)
  THEN applyc(adjoint(gate.gate), Ctl(gate.idx0), gate.idx1[1],
              gate.name \o "*", inverse_val(gate.val))
  ELSE <<>>

\* for gate in self.ir.gates[::-1]: the calls made on newqc
inverse_calls(gates) ==
  Flat([i \in 1..Len(gates) |-> inverse_gate(gates[Len(gates) + 1 - i])])

inverse(b, FLAGS) == Run(qc_init(b.name, FALSE, FLAGS), inverse_calls(b.gates))

(***************************************************************************)
(* qc.control_by: control a whole recorded circuit by qubit ctl.           *)
(***************************************************************************)
\* control_by_gate that hands the two controls over in the other order
control_by_gate_swapped(gate, ctl) ==
  IF is_single(gate) THEN <<to_ctl(gate, ctl)>>
  ELSE IF is_ctl(gate)
  THEN Run(qc_init("multi", FALSE, FALSE),
           multi_control(<<Ctl(gate.idx0), Ctl(ctl)>>, gate.idx1[1],
                         AuxNone, gate.gate, gate.name)).gates
  ELSE <<>>

control_by_gate(gate, ctl) ==
  IF is_single(gate) THEN <<to_ctl(gate, ctl)>>
  ELSE IF is_ctl(gate)
  THEN Run(qc_init("multi", FALSE, FALSE),
           multi_control(<<Ctl(ctl), Ctl(gate.idx0)>>, gate.idx1[1],
                         AuxNone, gate.gate, gate.name)).gates
  ELSE <<>>

control_by(b, ctl) ==
  IF b.eager THEN Raise(b, "ControlByEager")
  ELSE [b EXCEPT !.gates =
          Flat([i \in 1..Len(b.gates) |-> control_by_gate(b.gates[i], ctl)])]

(***************************************************************************)
(* Bounds of the model.                                                    *)
(***************************************************************************)
MaxQubits == 2      \* qubits allocated on the builder of Spec
MaxCalls == 1       \* calls made on the builder of Spec

\* the operators the calls of Spec draw from
GateSet == {PauliX, Hadamard}
\* qubit indices a call may name: the valid ones and one beyond every State
IdxRange == 0..MaxQubits

(***************************************************************************)
(* qc.unitary, qc.measure_bit, qc.pauli_expectation and qc.sub.            *)
(***************************************************************************)
\* ops.Operator(op)(psi, idx) for a one-qubit operator and idx inside the
\* State: (I x ... x op x ... x I) psi
operator_apply(psi, op, idx) == state_apply1(psi, op, idx)

\* qc.unitary: the State is assigned; no index check, no IR node, whatever
\* the flags of the builder
qc_unitary(b, op, idx) == [b EXCEPT !.psi = operator_apply(b.psi, op, idx)]

\* |x|^2 as an element of the ring
NormSq(a) == Mul(a, Conj(a))

\* the basis indices of psi whose qubit idx has the value tostate
Projected(psi, idx, tostate) ==
  {i \in DOMAIN psi.amp :
     Bit(i, psi.nbits, idx) = tostate /\ psi.amp[i] # Zero}

RECURSIVE SumNormSq(_, _)
SumNormSq(psi, S) ==
  IF S = {} THEN Zero
  ELSE LET i == CHOOSE j \in S : TRUE
       IN Add(NormSq(psi.amp[i]), SumNormSq(psi, S \ {i}))

\* <<p, e, d>> stands for the real number p / (2^e * d), with p and d in
\* Z[sqrt 2]; common factors 2 of p and 2^e are taken out
RECURSIVE ReduceProb(_)
ReduceProb(prob) ==
  IF prob[2] > 0 /\ Even(prob[1])
  THEN ReduceProb(<<Half(prob[1]), prob[2] - 1, prob[3]>>)
  ELSE prob

\* <psi|P|psi> for the projector P of ops.Measure: the squared magnitudes
\* of the entries P keeps, over 4^exp * nrm
measure_prob(psi, idx, tostate) ==
  ReduceProb(<<SumNormSq(psi, Projected(psi, idx, tostate)), 2 * psi.exp,
               psi.nrm>>)

\* P psi / sqrt(probability) = P amp / sqrt(sum of |amp[i]|^2 over the
\* entries P keeps), for a probability that is not 0
measure_collapse(psi, idx, tostate) ==
  Renorm(StateN(psi.nbits, 0,
                Table(Projected(psi, idx, tostate), LAMBDA i : psi.amp[i]),
                SumNormSq(psi, Projected(psi, idx, tostate))))

\* ops.Measure(psi, idx, tostate, collapse): <<prob, new psi, error>>; a
\* collapse onto probability 0 cannot be normalised and raises
Measure(psi, idx, tostate, collapse) ==
  IF collapse /\ Projected(psi, idx, tostate) = {}
  THEN <<measure_prob(psi, idx, tostate), psi, "CollapseZeroProbability">>
  ELSE << measure_prob(psi, idx, tostate),
          IF collapse THEN measure_collapse(psi, idx, tostate) ELSE psi,
          NoExc >>

\* qc.measure_bit: prob, self.psi = ops.Measure(...); an error of Measure
\* leaves self.psi as it was
qc_measure_bit(b, idx, tostate, collapse) ==
  LET r == Measure(b.psi, idx, tostate, collapse)
  IN IF r[3] # NoExc THEN Raise(b, r[3]) ELSE [b EXCEPT !.psi = r[2]]

\* qc.pauli_expectation: p0 - (1 - p0) for p0 = p / (2^e d), that is
\* (2p - 2^e d) / (2^e d)
pauli_expectation(psi, idx) ==
  LET p0 == measure_prob(psi, idx, 0)
  IN ReduceProb(<<Add(Scale(2, p0[1]), Neg(Scale(Pow2(p0[2]), p0[3]))),
                  p0[2], p0[3]>>)

\* qc.sub: <<the builder with its counter advanced, the new sub-circuit>>
qc_sub(b, name) ==
  << [b EXCEPT !.sub_circuits = @ + 1],
     qc_init("inner_" \o ToString(b.sub_circuits) \o name, FALSE, FALSE) >>

(***************************************************************************)
(* A call on main: pre keeps main as it was, outcome the error raised.     *)
(***************************************************************************)
Fresh(b) == [b EXCEPT !.exc = NoExc]

Returns(result, c) ==
  \E r \in {result} :
    /\ pre' = main
    /\ main' = Fresh(r)
    /\ outcome' = r.exc
    /\ call' = c
    /\ ncalls' = ncalls + 1
    /\ UNCHANGED <<other, newqc>>

Alloc(result, c) ==
  /\ pre' = main
  /\ main' = result
  /\ outcome' = NoExc
  /\ call' = c
  /\ UNCHANGED <<other, ncalls, newqc>>

(***************************************************************************)
(* Spec: a builder made by the constructor, then allocations and gate      *)
(* calls in any order.                                                     *)
(***************************************************************************)
Init ==
  \E eager \in BOOLEAN, FLAGS \in BOOLEAN :
    /\ main = qc_init("main", eager, FLAGS)
    /\ other = qc_init("other", FALSE, FLAGS)
    /\ pre = main
    /\ call = [op |-> "init", eager |-> eager, FLAGS |-> FLAGS]
    /\ outcome = NoExc
    /\ ncalls = 0
    /\ newqc = None

Zeros ==
  \E n \in 1..MaxQubits :
    /\ nbits(main) + n <= MaxQubits
    /\ Alloc(qc_zeros(main, n), [op |-> "zeros", n |-> n])

Ones ==
  \E n \in 1..MaxQubits :
    /\ nbits(main) + n <= MaxQubits
    /\ Alloc(qc_ones(main, n), [op |-> "ones", n |-> n])

\* apply1(gate, idx) with an int, and apply1(gate, [i, j]) with a list
Apply1 ==
  /\ ncalls < MaxCalls
  /\ \E gate \in GateSet :
       \E idx_set \in {<<i>> : i \in IdxRange} \cup
                      {<<i, j>> : i \in IdxRange, j \in {1}} :
         Returns(Run(main, apply1(gate, idx_set, "g", None)),
                 [op |-> "apply1", gate |-> gate, idx_set |-> idx_set])

\* applyc(gate, ctl, idx), the control by 1 (an int) or by 0 (a list)
Applyc ==
  /\ ncalls < MaxCalls
  /\ \E gate \in GateSet, q \in IdxRange, idx \in IdxRange, by_0 \in BOOLEAN :
       /\ q # idx
       /\ LET ctl == IF by_0 THEN CtlBy0(q) ELSE Ctl(q)
          IN Returns(Run(main, applyc(gate, ctl, idx, "cg", None)),
                     [op |-> "applyc", gate |-> gate, ctl |-> ctl, idx |-> idx])

\* multi_control(ctl, idx1, aux, gate) with 0..3 controls and an ancilla
\* argument that is None, empty, too short or long enough
MultiControl ==
  /\ ncalls < MaxCalls
  /\ \E k \in 0..3, idx1 \in {1} :
       \E aux \in {AuxNone, AuxList(<<>>), AuxList(<<3>>), AuxList(<<3, 4>>)} :
         LET ctl == [i \in 1..k |-> Ctl(i - 1)]
         IN Returns(Run(main, multi_control(ctl, idx1, aux, PauliX, "mc")),
                    [op |-> "multi_control", ctl |-> ctl, idx1 |-> idx1,
                     aux |-> aux, gate |-> PauliX])

Next == Zeros \/ Ones \/ Apply1 \/ Applyc \/ MultiControl

Spec == Init /\ [][Next]_vars

(***************************************************************************)
(* Properties of single gate calls, checked under Spec.                    *)
(***************************************************************************)
IsGateCall == call.op \in {"apply1", "applyc"}

\* the number of gate calls the last call stands for: one per target index
\* of apply1; one for applyc, and two more (the bracketing x) when the
\* control is by 0
GateCallsOf(c) ==
  IF c.op = "apply1" THEN Len(c.idx_set)
  ELSE IF c.ctl.list THEN 3 ELSE 1

\* the qubit indices the last call names
IndicesOf(c) ==
  IF c.op = "apply1" THEN {c.idx_set[i] : i \in 1..Len(c.idx_set)}
  ELSE {c.ctl.q, c.idx}

NodesAdded == Len(GateNodes(main.gates)) - Len(GateNodes(pre.gates))

IndexErrors == {"InvalidQubitIndex", "KernelIndexOutOfRange"}

\* C4: every apply1/applyc call that returns has appended exactly one IR
\* node per gate call if the builder records and none if it does not, has
\* invoked the kernel once per gate call if the builder is eager and not at
\* all if it is not; a builder that is not eager keeps its State, a builder
\* that does not record keeps its IR.
C4_GateCallEffects ==
  (IsGateCall /\ outcome = NoExc) =>
    /\ main.gcalls - pre.gcalls = GateCallsOf(call)
    /\ NodesAdded = (IF pre.build_ir THEN GateCallsOf(call) ELSE 0)
    /\ main.kcalls - pre.kcalls = (IF pre.eager THEN GateCallsOf(call) ELSE 0)
    /\ (~pre.eager => main.psi = pre.psi)
    /\ (~pre.build_ir => main.gates = pre.gates)
    /\ main.eager = pre.eager /\ main.build_ir = pre.build_ir

\* an eager applyc by 0 has run the kernel three times and changed the State
C4_WitnessEager ==
  /\ call.op = "applyc" /\ call.ctl.list /\ outcome = NoExc
  /\ pre.eager /\ ~pre.build_ir
  /\ main.kcalls = pre.kcalls + 3
  /\ main.psi # pre.psi /\ main.gates = pre.gates

\* C5: every gate call that returns acts on the State or on the IR: the
\* kernel has run or a node has been appended.
C5_EveryGateCallActs ==
  (IsGateCall /\ outcome = NoExc) =>
    (main.kcalls > pre.kcalls \/ Len(main.gates) > Len(pre.gates))

\* C6, as stated: a gate call that names a qubit index at or beyond the
\* builder's qubit count fails with an index-out-of-range condition.
C6_AlwaysFails ==
  (IsGateCall /\ \E i \in IndicesOf(call) : i >= nbits(pre)) =>
    outcome \in IndexErrors

\* C6, amended: on an eager builder such a call fails with an
\* index-out-of-range condition, and with the builder's own 'Invalid qubit
\* index' when it is a target index; on a builder that is not eager the
\* call returns, and a recording builder has appended the nodes.
C6_FailsWhenEager ==
  (IsGateCall /\ \E i \in IndicesOf(call) : i >= nbits(pre)) =>
    /\ pre.eager => outcome \in IndexErrors
    /\ (pre.eager /\ call.op = "apply1") => outcome = "InvalidQubitIndex"
    /\ (pre.eager /\ call.op = "applyc" /\ call.idx >= nbits(pre))
         => outcome = "InvalidQubitIndex"
    /\ ~pre.eager => /\ outcome = NoExc
                     /\ pre.build_ir => NodesAdded = GateCallsOf(call)

\* an eager builder of one qubit refuses a controlled gate whose control is
\* qubit 1
C6_WitnessEager ==
  /\ call.op = "applyc" /\ pre.eager /\ nbits(pre) = 1
  /\ call.idx = 0 /\ call.ctl.q = 1
  /\ outcome \in IndexErrors

\* C7: multi_control with three or more controls and fewer than k - 1
\* ancilla (None and [] included) fails with the configuration condition,
\* before any gate node is appended and before any gate is applied.
C7_ConfigurationFailure ==
  (/\ call.op = "multi_control"
   /\ Len(call.ctl) >= 3
   /\ Len(call.aux.items) < Len(call.ctl) - 1) =>
    /\ outcome = "AncillaCount"
    /\ GateNodes(main.gates) = GateNodes(pre.gates)
    /\ main.psi = pre.psi

(***************************************************************************)
(* SpecCcu: an eager builder holding a basis state of 3..CcuQubits qubits, *)
(* then ccu(c0, c1, t, X) on any three distinct qubits.                    *)
(***************************************************************************)
CcuQubits == 4

InitCcu ==
  \E n \in 3..CcuQubits :
    \E bits \in 0..(Pow2(n) - 1) :
      /\ main = qc_bitstring(qc_init("main", TRUE, FALSE), n, bits)
      /\ other = qc_init("other", FALSE, FALSE)
      /\ pre = main
      /\ call = [op |-> "bitstring", n |-> n, bits |-> bits]
      /\ outcome = NoExc
      /\ ncalls = 0
      /\ newqc = None

Ccu ==
  /\ ncalls < MaxCalls
  /\ \E c0 \in 0..(nbits(main) - 1), c1 \in 0..(nbits(main) - 1),
        t \in 0..(nbits(main) - 1) :
       /\ c0 # c1 /\ c0 # t /\ c1 # t
       /\ Returns(Run(main, ccu(Ctl(c0), Ctl(c1), t, PauliX, "ccx")),
                  [op |-> "ccu", idx0 |-> c0, idx1 |-> c1, idx2 |-> t])

NextCcu == Ccu

SpecCcu == InitCcu /\ [][NextCcu]_vars

\* the basis index a State holds (the builder of SpecCcu holds basis states)
BasisIndex(psi) == CHOOSE i \in DOMAIN psi.amp : TRUE

\* basis index p of n qubits with the bit of qubit q flipped
FlipBit(p, n, q) ==
  IF Bit(p, n, q) = 0 THEN p + Pow2(n - 1 - q) ELSE p - Pow2(n - 1 - q)

\* C1: ccu(c0, c1, t, X) on a basis input of distinct qubits returns, after
\* five controlled-gate applications, the basis state in which the target
\* bit is flipped if and only if both control bits are 1 and every other
\* bit, the two controls included, is as before.
C1_Toffoli ==
  (call.op = "ccu") =>
    LET n == nbits(pre)
        p == BasisIndex(pre.psi)
        m == BasisIndex(main.psi)
        both == Bit(p, n, call.idx0) = 1 /\ Bit(p, n, call.idx1) = 1
    IN /\ outcome = NoExc
       /\ pre.psi = basis(n, p)
       /\ main.psi = basis(n, m)
       /\ main.kcalls = pre.kcalls + 5
       /\ Bit(m, n, call.idx0) = Bit(p, n, call.idx0)
       /\ Bit(m, n, call.idx1) = Bit(p, n, call.idx1)
       /\ (Bit(m, n, call.idx2) # Bit(p, n, call.idx2)) <=> both
       /\ m = (IF both THEN FlipBit(p, n, call.idx2) ELSE p)

\* both controls were 1 and the target went from 0 to 1
C1_WitnessFlip ==
  /\ call.op = "ccu" /\ outcome = NoExc
  /\ Bit(BasisIndex(pre.psi), nbits(pre), call.idx0) = 1
  /\ Bit(BasisIndex(pre.psi), nbits(pre), call.idx1) = 1
  /\ Bit(BasisIndex(pre.psi), nbits(pre), call.idx2) = 0
  /\ Bit(BasisIndex(main.psi), nbits(pre), call.idx2) = 1

(***************************************************************************)
(* SpecMulti: an eager builder holding a basis state of 2k qubits, for k   *)
(* in 3..MaxK: k controls in any of the 2^k patterns, k - 1 ancilla at 0   *)
(* and a target at 0 or 1; then one multi_control call.                    *)
(***************************************************************************)
MaxK == 6

\* where the controls, the ancilla and the target sit among the 2k qubits:
\* "cat" is controls, ancilla, target; "mix" alternates control and ancilla
Layouts == {"cat", "mix"}
Layout(k, lay) ==
  IF lay = "cat"
  THEN [ctl |-> [i \in 1..k |-> i - 1],
        aux |-> [j \in 1..(k - 1) |-> k + j - 1],
        idx1 |-> 2 * k - 1]
  ELSE [ctl |-> [i \in 1..k |-> 2 * (i - 1)],
        aux |-> [j \in 1..(k - 1) |-> 2 * j - 1],
        idx1 |-> 2 * k - 1]

RECURSIVE SumSeq(_)
SumSeq(q) == IF q = <<>> THEN 0 ELSE Head(q) + SumSeq(Tail(q))

\* the basis index of 2k qubits with control i at bit i of pattern, the
\* target at tv and every ancilla at 0
LayoutBits(k, lay, pattern, tv) ==
  LET L == Layout(k, lay)
      n == 2 * k
  IN SumSeq([i \in 1..k |->
               ((pattern \div Pow2(i - 1)) % 2) * Pow2(n - 1 - L.ctl[i])])
     + tv * Pow2(n - 1 - L.idx1)

InitMulti ==
  \E k \in 3..MaxK, lay \in Layouts, tv \in 0..1 :
    \E pattern \in 0..(Pow2(k) - 1) :
      /\ main = qc_bitstring(qc_init("main", TRUE, FALSE), 2 * k,
                             LayoutBits(k, lay, pattern, tv))
      /\ other = qc_init("other", FALSE, FALSE)
      /\ pre = main
      /\ call = [op |-> "bitstring", n |-> 2 * k,
                 bits |-> LayoutBits(k, lay, pattern, tv)]
      /\ outcome = NoExc
      /\ ncalls = 0
      /\ newqc = None

MultiK ==
  /\ ncalls = 0
  /\ \E lay \in Layouts, gate \in GateSet :
       LET L == Layout(nbits(main) \div 2, lay)
       IN /\ \A j \in 1..Len(L.aux) :
               Bit(BasisIndex(main.psi), nbits(main), L.aux[j]) = 0
          /\ Returns(Run(main, multi_control([i \in 1..Len(L.ctl) |-> Ctl(L.ctl[i])],
                                             L.idx1, AuxList(L.aux), gate, "mc")),
                     [op |-> "multi_control",
                      ctl |-> [i \in 1..Len(L.ctl) |-> Ctl(L.ctl[i])],
                      idx1 |-> L.idx1, aux |-> AuxList(L.aux), gate |-> gate])

NextMulti == MultiK

SpecMulti == InitMulti /\ [][NextMulti]_vars

\* C2: multi_control with k in 3..MaxK distinct controls and k - 1 distinct
\* ancilla at 0 returns a State in which every ancilla bit is 0 again and
\* every control bit is as before, and which is the gate applied to the
\* target of the input if all k controls were 1 and the input itself if
\* not.
C2_LadderRestored ==
  (call.op = "multi_control") =>
    LET n == nbits(pre)
        p == BasisIndex(pre.psi)
        all1 == \A i \in 1..Len(call.ctl) : Bit(p, n, call.ctl[i].q) = 1
    IN /\ outcome = NoExc
       /\ Len(call.ctl) \in 3..MaxK
       /\ Len(call.aux.items) = Len(call.ctl) - 1
       /\ \A m \in DOMAIN main.psi.amp :
            /\ \A j \in 1..Len(call.aux.items) : Bit(m, n, call.aux.items[j]) = 0
            /\ \A i \in 1..Len(call.ctl) :
                 Bit(m, n, call.ctl[i].q) = Bit(p, n, call.ctl[i].q)
       /\ main.psi = (IF all1 THEN state_apply1(pre.psi, call.gate, call.idx1)
                      ELSE pre.psi)
       /\ all1 <=> main.psi # pre.psi

\* six controls, all at 1: X has flipped the target and the five ancilla
\* are back at 0
C2_WitnessSix ==
  /\ call.op = "multi_control" /\ outcome = NoExc
  /\ Len(call.ctl) = 6 /\ call.gate = PauliX
  /\ \A i \in 1..6 : Bit(BasisIndex(pre.psi), 12, call.ctl[i].q) = 1
  /\ main.psi = basis(12, FlipBit(BasisIndex(pre.psi), 12, call.idx1))
  /\ \A j \in 1..5 : Bit(BasisIndex(main.psi), 12, call.aux.items[j]) = 0

(***************************************************************************)
(* SpecReplay: a circuit is recorded into other (a record-only builder),   *)
(* its inverse is taken, and the circuit and then its inverse are replayed *)
(* with qc into main at an offset. main is an eager builder of             *)
(* ReplayQubits qubits in a basis state or with a Hadamard on qubit 0, or  *)
(* a recording builder.                                                    *)
(***************************************************************************)
MaxGates == 2
ReplayQubits == 3
MaxOffset == 2

\* the gates a recorded call may name: operator, label and parameter (u1's
\* angle, counted in units of pi/4)
RecGates ==
  { [gate |-> Hadamard, name |-> "h", val |-> None],
    [gate |-> Tgate, name |-> "t", val |-> None],
    [gate |-> U1(0), name |-> "u1", val |-> Some(0)],
    [gate |-> U1(1), name |-> "u1", val |-> Some(1)] }

InitReplay ==
  /\ \/ \E bits \in 0..(Pow2(ReplayQubits) - 1), h \in BOOLEAN :
          main = Fresh(Run(qc_bitstring(qc_init("main", TRUE, FALSE),
                                        ReplayQubits, bits),
                           IF h THEN apply1(Hadamard, <<0>>, "h", None) ELSE <<>>))
     \/ main = qc_init("main", FALSE, FALSE)
  /\ other = qc_init("other", FALSE, FALSE)
  /\ pre = main
  /\ call = [op |-> "init"]
  /\ outcome = NoExc
  /\ ncalls = 0
  /\ newqc = None

\* a call on other, the circuit being recorded
Records(steps) ==
  /\ other' = Fresh(Run(other, steps))
  /\ newqc' = None
  /\ call' = [op |-> "record"]
  /\ UNCHANGED <<main, pre, outcome, ncalls>>

RecordSingle ==
  /\ ncalls = 0 /\ Len(other.gates) < MaxGates
  /\ \E g \in RecGates, i \in 0..1 :
       Records(apply1(g.gate, <<i>>, g.name, g.val))

RecordCtl ==
  /\ ncalls = 0 /\ Len(other.gates) < MaxGates
  /\ \E g \in RecGates, i \in 0..1 :
       Records(applyc(g.gate, Ctl(i), 1 - i, "c" \o g.name, g.val))

RecordCcx ==
  /\ ncalls = 0 /\ Len(other.gates) < MaxGates
  /\ Records(ccx(Ctl(0), Ctl(1), 2))

\* newqc = other.inverse()
Inverse ==
  /\ ncalls = 0
  /\ newqc = None
  /\ \E FLAGS \in BOOLEAN : newqc' = Some(inverse(other, FLAGS))
  /\ call' = [op |-> "inverse"]
  /\ UNCHANGED <<main, other, pre, outcome, ncalls>>

\* main.qc(other, offset)
Replay ==
  /\ ncalls = 0
  /\ \E offset \in 0..MaxOffset :
       Returns(Run(main, qc(other, offset)),
               [op |-> "qc", offset |-> offset, gates |-> other.gates,
                start |-> main.psi])

\* main.qc(newqc, offset), after main.qc(other, offset) has returned
ReplayInverse ==
  /\ call.op = "qc" /\ outcome = NoExc
  /\ newqc # None
  /\ Returns(Run(main, qc(newqc[1], call.offset)),
             [op |-> "qc_inverse", offset |-> call.offset,
              start |-> call.start])

NextReplay ==
  RecordSingle \/ RecordCtl \/ RecordCcx \/ Inverse \/ Replay \/ ReplayInverse

SpecReplay == InitReplay /\ [][NextReplay]_vars

\* the nodes G in order on psi, each at its indices plus offset
RECURSIVE ApplyAll(_, _, _)
ApplyAll(psi, G, offset) ==
  IF G = <<>> THEN psi
  ELSE ApplyAll(IF is_single(Head(G))
                THEN state_apply1(psi, Head(G).gate, Head(G).idx0 + offset)
                ELSE state_applyc(psi, Head(G).gate, Head(G).idx0 + offset,
                                  Head(G).idx1[1] + offset),
                Tail(G), offset)

ShiftNode(node, offset) ==
  [node EXCEPT !.idx0 = @ + offset,
               !.idx1 = IF @ = None THEN None ELSE Some(@[1] + offset)]

\* C3: after qc(C) and then qc(C.inverse()) have both returned on main,
\* main's State is the State it had before the two replays.
C3_InverseCancels ==
  (call.op = "qc_inverse" /\ outcome = NoExc) => main.psi = call.start

\* an eager main replayed a circuit of two or more nodes that changed its
\* State, and the inverse brought the State back
C3_WitnessRoundTrip ==
  /\ call.op = "qc_inverse" /\ outcome = NoExc /\ pre.eager
  /\ Len(GateNodes(other.gates)) >= 2
  /\ pre.psi # call.start
  /\ main.psi = call.start

\* the parameter negated: theta becomes -theta, no parameter stays none
Negated(val) == IF val = None THEN None ELSE Some(-val[1])

\* C9: the circuit inverse() returns is non-eager and recording, and has as
\* many nodes as the original: node i is node n-1-i of the original with the
\* same kind and indices, the adjoint operator and the parameter negated,
\* for every parameter value.
C9_InverseNodes ==
  (newqc # None) =>
    LET G == GateNodes(other.gates)
        R == newqc[1].gates
    IN /\ ~newqc[1].eager /\ newqc[1].build_ir
       /\ Len(R) = Len(G)
       /\ \A i \in 1..Len(G) :
            /\ R[i].kind = G[Len(G) + 1 - i].kind
            /\ R[i].idx0 = G[Len(G) + 1 - i].idx0
            /\ R[i].idx1 = G[Len(G) + 1 - i].idx1
            /\ SameMatrix(R[i].gate, adjoint(G[Len(G) + 1 - i].gate))
            /\ R[i].val = Negated(G[Len(G) + 1 - i].val)

\* C10 as stated: qc(other, offset) that returns has issued one gate call
\* for every entry of other's IR, a recording builder's IR has grown by
\* exactly len(other.ir.gates) entries, and the IR of other is as it was.
C10_GrowsByEveryEntry ==
  (call.op = "qc" /\ outcome = NoExc) =>
    /\ main.gcalls - pre.gcalls = Len(other.gates)
    /\ other.gates = call.gates
    /\ pre.build_ir => Len(main.gates) = Len(pre.gates) + Len(other.gates)

\* C10, corrected: qc(other, offset) that returns has issued one gate call
\* per single or controlled node of other, in order, each with the node's
\* kind, operator, name and parameter and its indices plus offset; the
\* section markers of other are passed over. A recording builder has the
\* shifted nodes, and nothing else, appended to its IR; an eager builder has
\* them applied to its State; the IR of other is as it was.
C10_ReplayAtOffset ==
  (call.op = "qc" /\ outcome = NoExc) =>
    LET G == GateNodes(other.gates)
    IN /\ main.gcalls - pre.gcalls = Len(G)
       /\ other.gates = call.gates
       /\ pre.build_ir =>
            /\ main.gates =
                 pre.gates \o [i \in 1..Len(G) |-> ShiftNode(G[i], call.offset)]
            /\ main.psi = pre.psi
       /\ pre.eager =>
            /\ main.psi = ApplyAll(pre.psi, G, call.offset)
            /\ main.kcalls - pre.kcalls = Len(G)
            /\ main.gates = pre.gates

\* a recording main replayed a ccx at an offset: of the seven entries of
\* other (section, five controlled nodes, end_section) it took the five
\* nodes, shifted, and no marker
C10_WitnessSections ==
  /\ call.op = "qc" /\ outcome = NoExc /\ pre.build_ir
  /\ call.offset > 0
  /\ Len(other.gates) = 7
  /\ is_section(other.gates[1]) /\ is_end_section(other.gates[7])
  /\ Len(main.gates) = Len(pre.gates) + 5
  /\ \A i \in 1..5 :
       /\ is_ctl(main.gates[Len(pre.gates) + i])
       /\ main.gates[Len(pre.gates) + i]
            = ShiftNode(other.gates[i + 1], call.offset)

\* a recording main took two nodes, a controlled one among them, at an
\* offset
C10_WitnessOffset ==
  /\ call.op = "qc" /\ outcome = NoExc /\ pre.build_ir
  /\ call.offset = 2
  /\ Len(other.gates) = 2 /\ is_ctl(other.gates[2])
  /\ Len(main.gates) = 2
  /\ main.gates[2].idx0 = other.gates[2].idx0 + 2
  /\ main.gates[2].idx1 = Some(other.gates[2].idx1[1] + 2)

(***************************************************************************)
(* SpecCtl: gate calls on a builder of two qubits, record-only or eager,   *)
(* and control_by(ctl) on what it holds. The controlled gates recorded are *)
(* those whose square root has its entries in the ring.                    *)
(***************************************************************************)
CtlSingles == {Hadamard, Tgate, PauliX}
CtlControlled == {[gate |-> PauliX, val |-> None], [gate |-> U1(2), val |-> Some(2)]}

InitCtl ==
  \E eager \in BOOLEAN :
    /\ main = qc_zeros(qc_init("main", eager, FALSE), 2)
    /\ other = qc_init("other", FALSE, FALSE)
    /\ pre = main
    /\ call = [op |-> "init", eager |-> eager, FLAGS |-> FALSE]
    /\ outcome = NoExc
    /\ ncalls = 0
    /\ newqc = None

CtlApply1 ==
  /\ ncalls < MaxGates
  /\ \E gate \in CtlSingles, i \in 0..1 :
       Returns(Run(main, apply1(gate, <<i>>, "g", None)),
               [op |-> "apply1", gate |-> gate, idx_set |-> <<i>>])

CtlApplyc ==
  /\ ncalls < MaxGates
  /\ \E g \in CtlControlled, i \in 0..1 :
       Returns(Run(main, applyc(g.gate, Ctl(i), 1 - i, "cg", g.val)),
               [op |-> "applyc", gate |-> g.gate, ctl |-> Ctl(i), idx |-> 1 - i])

\* control_by takes the square root of every controlled operator: the call
\* is made on circuits whose controlled operators have theirs in the ring
ControlBy ==
  /\ call.op # "control_by"
  /\ \A i \in 1..Len(main.gates) :
       is_ctl(main.gates[i]) => HasSqrtm(main.gates[i].gate)
  /\ \E ctl \in 2..3 :
       Returns(control_by(main, ctl), [op |-> "control_by", ctl |-> ctl])

NextCtl == CtlApply1 \/ CtlApplyc \/ ControlBy

SpecCtl == InitCtl /\ [][NextCtl]_vars

\* two nodes of the same kind, on the same indices, with the same operator
SameNode(a, b) ==
  /\ a.kind = b.kind /\ a.idx0 = b.idx0 /\ a.idx1 = b.idx1
  /\ SameMatrix(a.gate, b.gate)

\* what a node becomes under control_by(ctl): a single node on t, one
\* controlled node from ctl to t; a controlled node of U from c to t, the
\* doubly-controlled U on ctl and c, with V = sqrtm(U):
\*   cu(ctl, t, V); cx(ctl, c); cu(c, t, V^dag); cx(ctl, c); cu(c, t, V)
Promoted(node, ctl) ==
  IF is_single(node)
  THEN <<Node("ctl", node.name, ctl, Some(node.idx0), node.gate, node.val)>>
  ELSE << Node("ctl", "", ctl, node.idx1, sqrtm(node.gate), None),
          Node("ctl", "", ctl, Some(node.idx0), PauliX, None),
          Node("ctl", "", node.idx0, node.idx1, adjoint(sqrtm(node.gate)), None),
          Node("ctl", "", ctl, Some(node.idx0), PauliX, None),
          Node("ctl", "", node.idx0, node.idx1, sqrtm(node.gate), None) >>

\* C8: control_by(ctl) on a circuit that is not eager returns, and the
\* nodes of the IR are then all controlled nodes: in the order of the
\* original nodes, one controlled node on ctl with the same target and
\* operator for each single node, and the doubly-controlled decomposition
\* on ctl and c for each controlled node with control c.
C8_ControlBy ==
  (call.op = "control_by" /\ ~pre.eager) =>
    LET G == GateNodes(pre.gates)
        R == GateNodes(main.gates)
        E == Flat([i \in 1..Len(G) |-> Promoted(G[i], call.ctl)])
    IN /\ outcome = NoExc
       /\ Len(R) = Len(E)
       /\ \A i \in 1..Len(R) : is_ctl(R[i]) /\ SameNode(R[i], E[i])
       /\ \A i \in 1..Len(G) :
            is_single(G[i]) =>
              \E j \in 1..Len(R) :
                /\ R[j].idx0 = call.ctl /\ R[j].idx1 = Some(G[i].idx0)
                /\ R[j].gate = G[i].gate /\ R[j].val = G[i].val
                /\ R[j].name = G[i].name

\* a single node and then a controlled node were recorded; control_by left
\* six controlled nodes, the first one the single node under control
C8_WitnessBoth ==
  /\ call.op = "control_by" /\ ~pre.eager /\ outcome = NoExc
  /\ Len(pre.gates) = 2
  /\ is_single(pre.gates[1]) /\ is_ctl(pre.gates[2])
  /\ Len(GateNodes(main.gates)) = 6
  /\ main.gates[1].idx0 = call.ctl
  /\ main.gates[1].idx1 = Some(pre.gates[1].idx0)

(***************************************************************************)
(* SpecInvert: gate calls on a builder of two qubits, then invert over the *)
(* register of the two qubits.                                             *)
(***************************************************************************)

\* the size of the register handed to invert
InvertSize == 2

\* qc.invert(reg). The inner swap_bits(reg, idx) takes two arguments and
\* the loop calls it with three, swap_bits(reg, gate.idx0, reg.size): the
\* first entry of the IR raises TypeError, and only an empty IR returns.
invert(b, size) ==
  IF b.gates = <<>> THEN b ELSE Raise(b, "TypeError")

Invert ==
  /\ call.op # "invert"
  /\ Returns(invert(main, InvertSize), [op |-> "invert", size |-> InvertSize])

NextInvert == CtlApply1 \/ CtlApplyc \/ Invert

SpecInvert == InitCtl /\ [][NextInvert]_vars

\* index i of a register of the given size, mirrored
Mirror(i, size) == size - 1 - i

\* a node with its target and, if controlled, its control mirrored
Mirrored(node, size) ==
  IF is_single(node)
  THEN [node EXCEPT !.idx0 = Mirror(node.idx0, size)]
  ELSE IF is_ctl(node)
  THEN [node EXCEPT !.idx0 = Mirror(node.idx0, size),
                    !.idx1 = Some(Mirror(node.idx1[1], size))]
  ELSE node

\* C11: invert(reg) on a circuit with a non-empty IR returns without an
\* error, and every node then has its target index and, for a controlled
\* node, its control index i replaced by size-1-i; the order of the nodes,
\* their operators and their parameters are the ones before the call.
C11_InvertMirrors ==
  (call.op = "invert" /\ pre.gates # <<>>) =>
    /\ outcome = NoExc
    /\ Len(main.gates) = Len(pre.gates)
    /\ \A i \in 1..Len(pre.gates) :
         main.gates[i] = Mirrored(pre.gates[i], call.size)

(***************************************************************************)
(* SpecScope: the scoped operations ccu, swap, cswap and multi_control on  *)
(* a builder of ScopeQubits qubits, with indices inside and outside the    *)
(* State.                                                                  *)
(***************************************************************************)
ScopeQubits == 3
MaxScoped == 1

\* qc.swap
swap(idx0, idx1) ==
  scope("swap",
        cx(Ctl(idx1), idx0) \o cx(Ctl(idx0), idx1) \o cx(Ctl(idx1), idx0))

\* qc.cswap
cswap(ctl, idx0, idx1) ==
  scope("cswap",
        cx(Ctl(idx1), idx0) \o ccx(ctl, Ctl(idx0), idx1) \o cx(Ctl(idx1), idx0))

ScopeIdx == 0..ScopeQubits

InitScope ==
  \E eager \in BOOLEAN :
    /\ main = qc_ones(qc_init("main", eager, FALSE), ScopeQubits)
    /\ other = qc_init("other", FALSE, FALSE)
    /\ pre = main
    /\ call = [op |-> "init", eager |-> eager, FLAGS |-> FALSE]
    /\ outcome = NoExc
    /\ ncalls = 0
    /\ newqc = None

\* ccu(idx0, idx1, idx2, X), the first control by 1 or by 0
ScopeCcu ==
  /\ ncalls < MaxScoped
  /\ \E i0 \in ScopeIdx, i1 \in ScopeIdx, i2 \in ScopeIdx, by_0 \in BOOLEAN :
       /\ i0 # i1 /\ i0 # i2 /\ i1 # i2
       /\ LET c0 == IF by_0 THEN CtlBy0(i0) ELSE Ctl(i0)
          IN Returns(Run(main, ccu(c0, Ctl(i1), i2, PauliX, "ccx")),
                     [op |-> "ccu", idx0 |-> c0, idx1 |-> i1, idx2 |-> i2])

ScopeSwap ==
  /\ ncalls < MaxScoped
  /\ \E i0 \in ScopeIdx, i1 \in ScopeIdx :
       /\ i0 # i1
       /\ Returns(Run(main, swap(i0, i1)),
                  [op |-> "swap", idx0 |-> i0, idx1 |-> i1])

ScopeCswap ==
  /\ ncalls < MaxScoped
  /\ \E q \in ScopeIdx, i0 \in ScopeIdx, i1 \in ScopeIdx :
       /\ q # i0 /\ q # i1 /\ i0 # i1
       /\ Returns(Run(main, cswap(Ctl(q), i0, i1)),
                  [op |-> "cswap", ctl |-> q, idx0 |-> i0, idx1 |-> i1])

\* multi_control with 0..3 controls on target 0; the ancilla argument is
\* None, empty, too short, or long enough (inside or outside the State)
ScopeMultiControl ==
  /\ ncalls < MaxScoped
  /\ \E k \in 0..3 :
       \E aux \in {AuxNone, AuxList(<<>>), AuxList(<<2>>),
                   AuxList(<<3, 4>>)} :
         LET ctl == [i \in 1..k |-> Ctl(i)]
         IN Returns(Run(main, multi_control(ctl, 0, aux, PauliX, "mc")),
                    [op |-> "multi_control", ctl |-> ctl, idx1 |-> 0,
                     aux |-> aux, gate |-> PauliX])

NextScope == ScopeCcu \/ ScopeSwap \/ ScopeCswap \/ ScopeMultiControl

SpecScope == InitScope /\ [][NextScope]_vars

\* the number of section markers and of end_section calls in an IR
RECURSIVE Opened(_)
Opened(gates) ==
  IF gates = <<>> THEN 0
  ELSE (IF is_section(gates[Len(gates)]) THEN 1 ELSE 0)
       + Opened(SubSeq(gates, 1, Len(gates) - 1))

RECURSIVE Closed(_)
Closed(gates) ==
  IF gates = <<>> THEN 0
  ELSE (IF is_end_section(gates[Len(gates)]) THEN 1 ELSE 0)
       + Closed(SubSeq(gates, 1, Len(gates) - 1))

ScopedOps == {"ccu", "swap", "cswap", "multi_control"}

\* C12: after any call of ccu, swap, cswap or multi_control, whether it
\* returned or raised part-way, the IR holds as many end_section entries as
\* section entries, and no end_section comes before its section: no section
\* is left open.
C12_SectionsBalanced ==
  (call.op \in ScopedOps) =>
    /\ Opened(main.gates) = Closed(main.gates)
    /\ \A n \in 1..Len(main.gates) :
         Closed(SubSeq(main.gates, 1, n)) <= Opened(SubSeq(main.gates, 1, n))

\* cswap on an eager builder raised inside its nested ccx, after its first
\* cx had changed the State: two sections were opened and both were closed
C12_WitnessNestedFailure ==
  /\ call.op = "cswap" /\ pre.eager /\ outcome \in IndexErrors
  /\ main.psi # pre.psi
  /\ Opened(main.gates) = Opened(pre.gates) + 2
  /\ Closed(main.gates) = Closed(pre.gates) + 2

(***************************************************************************)
(* SpecAlloc: the allocation operations of the builder, in any order.      *)
(***************************************************************************)
MaxAllocs == 3
MaxAllocQubits == 2

\* state.State([float(i) for i in range(0, 2**n)]): amplitude i at index i
arange_state(n) ==
  State(n, 0, Table(1..(Pow2(n) - 1), LAMBDA i : Scale(i, One)))

\* u(state.zeros(n)) for u drawn by unitary_group.rvs(1 << n): the first
\* column of u, a unit vector of 2^n entries none of which is known. Entry
\* i of the draw is the unknown Atom(draw, i).
random_state(n, draw) ==
  State(n, 0, Table(0..(Pow2(n) - 1), LAMBDA i : One \o <<Atom(draw, i)>>))

\* the tensors handed to qc.state: basis states and one superposition
StateTensors(n) ==
  {basis(n, k) : k \in 0..(Pow2(n) - 1)}
  \cup {state_apply1(zeros(n), Hadamard, 0)}

\* qc.reg(size, it): the register starts in the basis state |it>
qc_reg(b, size, it) == _tprod(b, basis(size, it), size)

\* qc.qubit(alpha, beta) with (alpha, beta) = (1, 0) or (0, 1)
qc_qubit(b, bit) == _tprod(b, basis(1, bit), 1)

\* qc.rand_bits(n), the random bits drawn being bits
qc_rand_bits(b, n, bits) == _tprod(b, basis(n, bits), n)

\* qc.arange: the State is assigned, not extended; global_reg grows by n
qc_arange(b, n) ==
  [b EXCEPT !.psi = arange_state(n), !.global_reg = @ + n]

\* qc.random: the State is assigned, not extended; global_reg is not touched
qc_random(b, psi) == [b EXCEPT !.psi = psi]

\* qc.state(t)
qc_state(b, t) == _tprod(b, t, t.nbits)

InitAlloc ==
  \E eager \in BOOLEAN :
    /\ main = qc_init("main", eager, FALSE)
    /\ other = qc_init("other", FALSE, FALSE)
    /\ pre = main
    /\ call = [op |-> "init", eager |-> eager, FLAGS |-> FALSE]
    /\ outcome = NoExc
    /\ ncalls = 0
    /\ newqc = None

AllocSizes == 1..MaxAllocQubits

AllocReg ==
  /\ ncalls < MaxAllocs
  /\ \E n \in AllocSizes, it \in {0, 1} :
       Returns(qc_reg(main, n, it), [op |-> "reg", n |-> n, new |-> basis(n, it)])

AllocQubit ==
  /\ ncalls < MaxAllocs
  /\ \E bit \in {0, 1} :
       Returns(qc_qubit(main, bit), [op |-> "qubit", n |-> 1, new |-> basis(1, bit)])

AllocZeros ==
  /\ ncalls < MaxAllocs
  /\ \E n \in AllocSizes :
       Returns(qc_zeros(main, n), [op |-> "zeros", n |-> n, new |-> zeros(n)])

AllocOnes ==
  /\ ncalls < MaxAllocs
  /\ \E n \in AllocSizes :
       Returns(qc_ones(main, n), [op |-> "ones", n |-> n, new |-> ones(n)])

AllocBitstring ==
  /\ ncalls < MaxAllocs
  /\ \E n \in AllocSizes :
       \E bits \in 0..(Pow2(n) - 1) :
         Returns(qc_bitstring(main, n, bits),
                 [op |-> "bitstring", n |-> n, new |-> basis(n, bits)])

AllocRandBits ==
  /\ ncalls < MaxAllocs
  /\ \E n \in AllocSizes :
       \E bits \in 0..(Pow2(n) - 1) :
         Returns(qc_rand_bits(main, n, bits),
                 [op |-> "rand_bits", n |-> n, new |-> basis(n, bits)])

AllocArange ==
  /\ ncalls < MaxAllocs
  /\ \E n \in AllocSizes :
       Returns(qc_arange(main, n),
               [op |-> "arange", n |-> n, new |-> arange_state(n)])

AllocRandom ==
  /\ ncalls < MaxAllocs
  /\ \E n \in AllocSizes :
       LET psi == random_state(n, ncalls + 1)
       IN Returns(qc_random(main, psi), [op |-> "random", n |-> n, new |-> psi])

AllocState ==
  /\ ncalls < MaxAllocs
  /\ \E n \in AllocSizes :
       \E t \in StateTensors(n) :
         Returns(qc_state(main, t), [op |-> "state", n |-> n, new |-> t])

NextAlloc ==
  \/ AllocReg \/ AllocQubit \/ AllocZeros \/ AllocOnes \/ AllocBitstring
  \/ AllocRandBits \/ AllocArange \/ AllocRandom \/ AllocState

SpecAlloc == InitAlloc /\ [][NextAlloc]_vars

AllocOps ==
  {"reg", "qubit", "zeros", "ones", "bitstring", "rand_bits", "arange",
   "random", "state"}

\* C13: after every allocation operation the State is the State before the
\* call tensored with the new subsystem (so its qubit count has not
\* decreased and the qubits allocated before keep their indices), and
\* global_reg equals the State's qubit count.
C13_TensorExtension ==
  (call.op \in AllocOps) =>
    /\ nbits(main) >= nbits(pre)
    /\ main.psi = tensor(pre.psi, call.new)
    /\ main.global_reg = nbits(main)

(***************************************************************************)
(* SpecRun: gate calls on a builder of one or two qubits, record-only or   *)
(* eager, with indices inside and outside the State, then run().           *)
(***************************************************************************)
RunQubits == 2

\* qc.run: the two flags are saved, set to replay-only, the builder's own
\* IR is replayed with qc(self), and the flags are assigned back by the two
\* statements after the replay, which an exception of the replay skips.
qc_run(b) ==
  LET b1 == [b EXCEPT !.build_ir = FALSE, !.eager = TRUE]
      r == Run(b1, qc(b1, 0))
  IN IF Failed(r) THEN r
     ELSE [r EXCEPT !.build_ir = b.build_ir, !.eager = b.eager]

InitRun ==
  \E eager \in BOOLEAN, n \in 1..RunQubits :
    /\ main = qc_ones(qc_init("main", eager, FALSE), n)
    /\ other = qc_init("other", FALSE, FALSE)
    /\ pre = main
    /\ call = [op |-> "init", eager |-> eager, FLAGS |-> FALSE]
    /\ outcome = NoExc
    /\ ncalls = 0
    /\ newqc = None

RunApply1 ==
  /\ ncalls < MaxGates
  /\ call.op # "run"
  /\ \E gate \in GateSet, i \in 0..RunQubits :
       Returns(Run(main, apply1(gate, <<i>>, "g", None)),
               [op |-> "apply1", gate |-> gate, idx_set |-> <<i>>])

RunApplyc ==
  /\ ncalls < MaxGates
  /\ call.op # "run"
  /\ \E q \in 0..RunQubits, i \in 0..RunQubits :
       /\ q # i
       /\ Returns(Run(main, applyc(PauliX, Ctl(q), i, "cx", None)),
                  [op |-> "applyc", gate |-> PauliX, ctl |-> Ctl(q), idx |-> i])

RunCircuit ==
  /\ call.op # "run"
  /\ Returns(qc_run(main), [op |-> "run"])

NextRun == RunApply1 \/ RunApplyc \/ RunCircuit

SpecRun == InitRun /\ [][NextRun]_vars

\* C14: after run(), whether it returned or a replayed gate failed its
\* index check, eager and build_ir hold the values they had before the call
\* and the IR is the one before the call; when it returned, the State is
\* the one before the call with every node of the IR applied once, in order.
C14_RunRestores ==
  (call.op = "run") =>
    /\ main.eager = pre.eager
    /\ main.build_ir = pre.build_ir
    /\ main.gates = pre.gates
    /\ (outcome = NoExc =>
          main.psi = ApplyAll(pre.psi, GateNodes(pre.gates), 0))

(***************************************************************************)
(* SpecSession: a builder made by the constructor, then allocations, gate  *)
(* calls, unitary, measurements and sub-circuits.                          *)
(***************************************************************************)
MaxSubs == 2

\* a call that is not a gate call: it is not counted by ncalls
Direct(result, c) ==
  /\ pre' = main
  /\ main' = Fresh(result)
  /\ outcome' = result.exc
  /\ call' = c
  /\ UNCHANGED <<other, ncalls>>

StateCalls == {"unitary", "measure_bit", "pauli_expectation"}

\* unitary(op, idx) with idx inside the State, not twice in a row
Unitary ==
  /\ call.op \notin StateCalls
  /\ \E op \in GateSet, idx \in IdxRange :
       /\ idx < nbits(main)
       /\ Direct(qc_unitary(main, op, idx),
                 [op |-> "unitary", gate |-> op, idx |-> idx])
       /\ UNCHANGED newqc

\* measure_bit(idx, tostate, collapse) with idx inside the State
MeasureBit ==
  /\ call.op \notin {"measure_bit", "pauli_expectation"}
  /\ \E idx \in IdxRange, tostate \in {0, 1}, collapse \in BOOLEAN :
       /\ idx < nbits(main)
       /\ Direct(qc_measure_bit(main, idx, tostate, collapse),
                 [op |-> "measure_bit", idx |-> idx, tostate |-> tostate,
                  collapse |-> collapse,
                  prob |-> measure_prob(main.psi, idx, tostate)])
       /\ UNCHANGED newqc

PauliExpectation ==
  /\ call.op \notin {"measure_bit", "pauli_expectation"}
  /\ \E idx \in IdxRange :
       /\ idx < nbits(main)
       /\ Direct(qc_measure_bit(main, idx, 0, FALSE),
                 [op |-> "pauli_expectation", idx |-> idx,
                  value |-> pauli_expectation(main.psi, idx)])
       /\ UNCHANGED newqc

\* sub(name): main counts the sub-circuit, newqc is the builder returned
Sub ==
  /\ main.sub_circuits < MaxSubs
  /\ \E name \in {"", "x"} :
       /\ Direct(qc_sub(main, name)[1], [op |-> "sub", name |-> name])
       /\ newqc' = Some(qc_sub(main, name)[2])

NextSession ==
  \/ Zeros \/ Ones \/ Apply1 \/ Applyc
  \/ Unitary \/ MeasureBit \/ PauliExpectation \/ Sub

SpecSession == Init /\ [][NextSession]_vars

\* C15: a gate call that fails its qubit-index check on an eager builder
\* is atomic: after apply1 (over an index or a list of indices) or applyc
\* (the control by 1 or by 0) has failed, the State and the IR are the ones
\* before the call.
C15_FailedCallAtomic ==
  (IsGateCall /\ pre.eager /\ outcome = "InvalidQubitIndex") =>
    /\ main.psi = pre.psi
    /\ main.gates = pre.gates

====
